---- MODULE Spec2Model ----
(***************************************************************************)
(* TokenHybridServer (src/hybrid_server.py): the token Registry            *)
(* (self.tokens), the Connection Set (self.connected_clients), the          *)
(* per-connection handler (handle_client / handle_message), the HTTP token  *)
(* endpoint and the host application's programmatic calls, run by one       *)
(* cooperative asyncio loop.  A step of the model is what one coroutine     *)
(* does between two suspension points (an await that can yield: the next    *)
(* inbound frame, a send).  TokenWebSocketServer (src/websocket_server.py)  *)
(* has the same handler, broadcast and registry code without the HTTP part. *)
(***************************************************************************)
EXTENDS Integers, Sequences, FiniteSets, TLC

\* ------------------------------------------------------------------ bounds
MaxConns == 2
MaxTokens == 2
MaxClock == 1
\* broadcast() calls suspended in a send at the same time
MaxPasses == 1
\* TokenHybridServer objects the accessor constructs in one run
MaxInstances == 2
\* frames of one connection that have arrived and are not handled yet
MaxInbox == 2

\* Connections are numbered in the order they are accepted.
Conns == 1..MaxConns
\* token_info.get('token', '')[:8]: the length of a preview's prefix
PreviewLen == 8
\* A token string is a sequence of characters (numbers from 1; character 0
\* is '.'); << >> is the empty string.  The i-th token is PreviewLen + i - 1
\* characters long, so the tokens are as long as a preview's prefix and
\* longer.
Tokens == {[j \in 1..(PreviewLen + i - 1) |-> i] : i \in 1..MaxTokens}
Times == 0..MaxClock

\* The coroutines that can be inside broadcast(): the handler of a
\* connection, the HTTP POST handler, the host's request_token_refresh.
WsTask(c) == <<"ws", c>>
HttpTask == <<"http", 0>>
HostTask == <<"host", 0>>
Tasks == {WsTask(c) : c \in Conns} \cup {HttpTask, HostTask}
\* no start / stop call of the host is in flight
Idle == "idle"

\* ------------------------------------------------------- JSON payloads
\* A JSON object is a record with the set of keys it carries ("keys"); a
\* field whose key is not in "keys" is absent and its slot is filler.
\* "user" is "object" (a JSON object with its own keys), or "null".
UserFull == [kind |-> "object", keys |-> {"name", "email"}, name |-> "alice", email |-> "alice@example.com"]
UserNameOnly == [kind |-> "object", keys |-> {"name"}, name |-> "bob", email |-> ""]
UserNone == [kind |-> "object", keys |-> {}, name |-> "", email |-> ""]
UserNull == [kind |-> "null", keys |-> {}, name |-> "", email |-> ""]

Payload(keys, tok, user, status) ==
    [keys |-> keys, accessToken |-> tok, user |-> user, status |-> status,
     expires |-> IF "expires" \in keys THEN "2030-01-01" ELSE "", transport |-> ""]

\* The token reports a client can send about token tok.
ReportsFor(tok) ==
    { Payload({"accessToken", "user", "status", "expires"}, tok, UserFull, "expired"),
      Payload({"accessToken", "user"}, tok, UserNameOnly, ""),
      Payload({"accessToken"}, tok, UserNone, "") }
\* Reports that carry no usable token: the key missing, or the empty string.
BadReports ==
    { Payload({"user"}, << >>, UserFull, ""),
      Payload({"accessToken", "user"}, << >>, UserFull, "") }
\* A report whose "user" is JSON null instead of an object.
NullUserReports == { Payload({"accessToken", "user"}, tok, UserNull, "") : tok \in Tokens }
GoodReports == UNION { ReportsFor(tok) : tok \in Tokens }
Reports == GoodReports \cup BadReports \cup NullUserReports
\* One well-formed report per token, and the ill-formed ones.
FullReports == { Payload({"accessToken", "user", "status", "expires"}, tok, UserFull, "expired") : tok \in Tokens }
FewReports == FullReports \cup BadReports \cup NullUserReports

\* the shortest token, and a well-formed report of it
FirstToken == CHOOSE k \in Tokens : \A j \in Tokens : Len(k) <= Len(j)
FirstReport == Payload({"accessToken", "user", "status", "expires"}, FirstToken, UserFull, "expired")
\* that report, and the reports that carry no usable token
FrameReports == {FirstReport} \cup BadReports

\* What a bidirectional client can put in one frame.
ReportFrames(reports) == [kind : {"json"}, type : {"token_update"}, data : reports]
OtherFrames ==
    [kind : {"malformed"}, type : {""}, data : {Payload({}, << >>, UserNone, "")}]
    \cup [kind : {"json"}, type : {"connection", "token_error", "heartbeat", "pong", "other"},
          data : {Payload({}, << >>, UserNone, "")}]
Frames(reports) == ReportFrames(reports) \cup OtherFrames

TokenUpdateFrame(data) == [kind |-> "json", type |-> "token_update", data |-> data]
JsonBody(data) == [kind |-> "json", data |-> data]

\* What an HTTP client can put in the body of POST /api/token.
ReportBodies(reports) == [kind : {"json"}, data : reports]
Bodies(reports) ==
    [kind : {"malformed"}, data : {Payload({}, << >>, UserNone, "")}]
    \cup ReportBodies(reports)

VARIABLES
    connected_clients,   \* self.connected_clients
    tokens,              \* self.tokens: token -> record
    hpc,                 \* per connection: where its handle_client coroutine is
    open,                \* per connection: the peer has not closed it
    bc,                  \* per task: its broadcast() frame (iterator, disconnected)
    now,                 \* datetime.now()
    out,                 \* what the last step put out: a frame sent, an HTTP
                         \* response, a value returned to the host, or nothing
    inbox,               \* per connection: the frames that have arrived and
                         \* that `async for message in websocket` has not
                         \* yielded yet, oldest first
    limit,               \* how many broadcast() calls the clients let overlap
    WEBSOCKETS_AVAILABLE,    \* the module flags set at import
    AIOHTTP_AVAILABLE,
    global_hybrid_server,    \* _global_hybrid_server: 0 is None, n the n-th
                             \* instance constructed
    websocket_server,    \* self.websocket_server
    runner,              \* self.runner
    site,                \* self.site
    is_running,          \* self.is_running
    instances,           \* how many TokenHybridServer objects were constructed
    port,                \* who holds a listening socket on localhost:port
    host                 \* the host's start / stop call in flight

\* the listeners' side of the service
service == <<WEBSOCKETS_AVAILABLE, AIOHTTP_AVAILABLE, global_hybrid_server,
             websocket_server, runner, site, is_running, instances, port, host>>
vars == <<connected_clients, tokens, hpc, open, bc, now, out, inbox, limit, service>>

\* ------------------------------------------------------------ outputs
\* kind: "send" (a frame put on connection "to"), "http" (a response, n its
\* status), "log" (a warning or error logged), "raise" (an exception that
\* leaves the program's code), "exit" (a handler ended), the name of a host
\* call (type its return value), or "none".  key: the token the step was
\* about.  n: total_tokens of a frame, an HTTP status, or a count logged.
\* note: whether the step's key was in the Registry before it ("created" /
\* "updated"), or "repeat" on a host call that repeats the previous step's.
Ev(kind, to, key, type, n, note) ==
    [kind |-> kind, to |-> to, key |-> key, type |-> type, n |-> n, note |-> note]
Nothing == Ev("none", 0, << >>, "", 0, "")
Logged(c, what) == Ev("log", c, << >>, what, 0, "")
Raised(what) == Ev("raise", 0, << >>, what, 0, "")

\* ----------------------------------------------------------- registry
Range(s) == {s[i] : i \in DOMAIN s}

\* dict.get(key, default) on a payload and on its "user" object
HasKey(obj, key) == key \in obj.keys

\* `not access_token`: the key is missing, or its value is the empty string
\* (mutant of NoToken: only the missing key is caught)
NoTokenKeyOnly(data) == ~HasKey(data, "accessToken")
NoToken(data) == ~HasKey(data, "accessToken") \/ data.accessToken = << >>

\* data.get("user", {}) and the two .get() on it raise AttributeError when
\* "user" is present and is not an object
UserInfo(data) == IF HasKey(data, "user") THEN data.user ELSE UserNone
UserFaults(data) == UserInfo(data).kind # "object"
\* (mutant of UserName: no default)
UserNameNoDefault(data) == UserInfo(data).name
UserName(data) == IF HasKey(UserInfo(data), "name") THEN UserInfo(data).name ELSE "unknown"
UserEmail(data) == IF HasKey(UserInfo(data), "email") THEN UserInfo(data).email ELSE "unknown"

\* the record handle_token_update builds
TokenRecord(data, transport, t) ==
    [token |-> data.accessToken,
     user_name |-> UserName(data),
     user_email |-> UserEmail(data),
     expires |-> IF HasKey(data, "expires") THEN data.expires ELSE "None",
     status |-> IF HasKey(data, "status") THEN data.status ELSE "active",
     last_updated |-> t,
     transport |-> transport,
     raw_data |-> data]

\* self.tokens[key] = rec
\* (mutant of Store: setdefault, the first record stays)
\* (mutant of Store: the record is updated field by field and the email of
\* the record that was there stays)
StoreMerged(reg, key, rec) ==
    [k \in DOMAIN reg \cup {key} |->
        IF k # key THEN reg[k]
        ELSE IF k \in DOMAIN reg THEN [rec EXCEPT !.user_email = reg[k].user_email]
        ELSE rec]
StoreIfAbsent(reg, key, rec) ==
    [k \in DOMAIN reg \cup {key} |-> IF k \in DOMAIN reg THEN reg[k] ELSE rec]
Store(reg, key, rec) ==
    [k \in DOMAIN reg \cup {key} |-> IF k = key THEN rec ELSE reg[k]]

\* del self.tokens[key]
Del(reg, key) == [k \in DOMAIN reg \ {key} |-> reg[k]]
EmptyDict == << >>

\* the event handle_token_update broadcasts, and request_token_refresh's
\* (the timestamp field of a frame is left out)
NoMsg == [type |-> "", user |-> "", total_tokens |-> 0, transport |-> ""]
TokenReceived(reg, data, transport) ==
    [type |-> "token_received", user |-> UserName(data),
     total_tokens |-> Cardinality(DOMAIN reg), transport |-> transport]
RequestToken ==
    [type |-> "request_token", user |-> "", total_tokens |-> 0, transport |-> ""]
Sent(c, m) == Ev("send", c, << >>, m.type, m.total_tokens, "")

\* queries of the programmatic surface
get_tokens == DOMAIN tokens
get_token_info(token) == IF token \in DOMAIN tokens THEN tokens[token] ELSE EmptyDict
get_all_token_info == {tokens[k] : k \in DOMAIN tokens}

\* ---------------------------------------------------------- broadcast
\* The frame of one broadcast() call suspended in `await client.send(...)`:
\* the message, the set iterator of `for client in self.connected_clients`
\* (used: the set's size when the iterator was made; snap: its members
\* then) and the local list `disconnected`.  delivered lists the clients
\* whose send succeeded, in order.
NoFrame ==
    [active |-> FALSE, msg |-> NoMsg, used |-> 0, snap |-> {},
     delivered |-> << >>, disconnected |-> << >>]
NewFrame(msg, clients) ==
    [active |-> TRUE, msg |-> msg, used |-> Cardinality(clients), snap |-> clients,
     delivered |-> << >>, disconnected |-> << >>]
Visited(f) == Range(f.delivered) \cup Range(f.disconnected)
Yields(f) == Len(f.delivered) + Len(f.disconnected)

\* next() of the set iterator.  CPython raises RuntimeError when the set's
\* size differs from the size at the iterator's creation.  Otherwise it
\* walks the hash table: over an unchanged set it yields every member once;
\* over a set that was changed and is back at its old size it may skip a
\* member, yield a new one, or (after a resize) yield one again, here at
\* most `used` yields in all.
SizeChanged(f, clients) == Cardinality(clients) # f.used
NextYields(f, clients) ==
    IF clients = f.snap THEN clients \ Visited(f)
    ELSE IF Yields(f) < f.used THEN clients ELSE {}
NextStops(f, clients) ==
    IF clients = f.snap THEN clients \ Visited(f) = {} ELSE TRUE

\* `for client in disconnected: self.connected_clients.remove(client)`:
\* set.remove raises KeyError on a client that is not in the set, and the
\* clients after it stay.
RECURSIVE PruneDisconnected(_, _)
PruneDisconnected(disconnected, clients) ==
    IF disconnected = << >> THEN [clients |-> clients, error |-> FALSE]
    ELSE IF Head(disconnected) \notin clients THEN [clients |-> clients, error |-> TRUE]
    ELSE PruneDisconnected(Tail(disconnected), clients \ {Head(disconnected)})

\* One turn of broadcast()'s loop, from a resumption to the next suspension
\* or to the end of the call: the outcomes [status, frame, clients, out].
\* status: "suspended" (in a send), "returned", "RuntimeError", "KeyError".
Outcome(status, frame, clients, o) ==
    [status |-> status, frame |-> frame, clients |-> clients, out |-> o]
SendTo(f, c, clients) ==
    IF open[c]
    THEN Outcome("suspended", [f EXCEPT !.delivered = Append(@, c)], clients, Sent(c, f.msg))
    ELSE Outcome("suspended", [f EXCEPT !.disconnected = Append(@, c)], clients, Nothing)
EndOfPass(f, clients) ==
    LET p == PruneDisconnected(f.disconnected, clients)
    IN  Outcome(IF p.error THEN "KeyError" ELSE "returned", NoFrame, p.clients, Nothing)
LoopTurn(f, clients) ==
    IF SizeChanged(f, clients)
    THEN {Outcome("RuntimeError", NoFrame, clients, Nothing)}
    ELSE {SendTo(f, c, clients) : c \in NextYields(f, clients)}
         \cup (IF NextStops(f, clients) THEN {EndOfPass(f, clients)} ELSE {})

\* broadcast(message) up to its first suspension
broadcast(msg, clients) ==
    IF clients = {}
    THEN {Outcome("returned", NoFrame, clients, Nothing)}
    ELSE LoopTurn(NewFrame(msg, clients), clients)

\* ----------------------------------------------------- token reports
\* handle_token_update(data, transport) up to its first suspension: the
\* outcomes [status, tokens, frame, clients, out]; status is broadcast's,
\* or "dropped" (no accessToken), or "AttributeError" (user not an object).
Annotate(o, key, note) == [o EXCEPT !.key = key, !.note = note]
handle_token_update(data, transport) ==
    IF NoToken(data)
    THEN {[status |-> "dropped", tokens |-> tokens, frame |-> NoFrame,
           clients |-> connected_clients, out |-> Logged(0, "no accessToken")]}
    ELSE IF UserFaults(data)
    THEN {[status |-> "AttributeError", tokens |-> tokens, frame |-> NoFrame,
           clients |-> connected_clients, out |-> Nothing]}
    ELSE LET key == data.accessToken
             reg == Store(tokens, key, TokenRecord(data, transport, now))
             note == IF key \in DOMAIN tokens THEN "updated" ELSE "created"
         IN  {[status |-> o.status, tokens |-> reg, frame |-> o.frame,
               clients |-> o.clients, out |-> Annotate(o.out, key, note)] :
              o \in broadcast(TokenReceived(reg, data, transport), connected_clients)}

Faults == {"AttributeError", "RuntimeError", "KeyError"}

\* At most `limit` broadcasts are in flight: no further report or refresh
\* request arrives while that many are suspended.
InFlight == Cardinality({t \in Tasks : bc[t].active})
MayBroadcast == InFlight < limit

\* --------------------------------------------------------------- Init
\* TokenHybridServer(port), constructed by the accessor, not started; both
\* libraries are there.
Constructed ==
    /\ WEBSOCKETS_AVAILABLE = TRUE
    /\ AIOHTTP_AVAILABLE = TRUE
    /\ global_hybrid_server = 1
    /\ instances = 1
    /\ websocket_server = "None"
    /\ runner = "None"
    /\ site = "None"
    /\ is_running = FALSE
    /\ port = {}
    /\ host = Idle

\* The service object with its handlers, as the libraries call them.
Init ==
    /\ connected_clients = {}
    /\ tokens = EmptyDict
    /\ hpc = [c \in Conns |-> "new"]
    /\ open = [c \in Conns |-> FALSE]
    /\ bc = [t \in Tasks |-> NoFrame]
    /\ now = 0
    /\ out = Nothing
    /\ inbox = [c \in Conns |-> << >>]
    /\ limit = MaxPasses
    /\ Constructed

\* ----------------------------------------------------- the environment
\* datetime.now() advances
Tick ==
    /\ now < MaxClock
    /\ now' = now + 1
    /\ UNCHANGED <<connected_clients, tokens, hpc, open, bc, out, inbox, limit, service>>

\* the peer closes connection c (gracefully or not); its handler learns of
\* it at its next receive, a sender at its next send
PeerCloses(c) ==
    /\ hpc[c] \in {"recv", "bcast"}
    /\ open[c]
    /\ open' = [open EXCEPT ![c] = FALSE]
    /\ UNCHANGED <<connected_clients, tokens, hpc, bc, now, out, inbox, limit, service>>

\* ------------------------------------------------------- handle_client
\* A connection is accepted: handle_client adds it to the set and waits for
\* its first frame (no suspension in between).
handle_client(c) ==
    /\ hpc[c] = "new"
    /\ \A d \in Conns : d < c => hpc[d] # "new"
    /\ connected_clients' = connected_clients \cup {c}
    /\ hpc' = [hpc EXCEPT ![c] = "recv"]
    /\ open' = [open EXCEPT ![c] = TRUE]
    /\ out' = Nothing
    /\ UNCHANGED <<tokens, bc, now, inbox, limit, service>>

\* The receive loop of c ends: the peer closed ("graceful": the iteration
\* ends; "abrupt": ConnectionClosed is caught), or something else is raised
\* out of the loop ("fault").  `finally` then runs
\* self.connected_clients.remove(websocket), which raises KeyError when the
\* connection is no longer in the set.
ExitReasons == {"graceful", "abrupt", "fault"}
\* (mutant of FinallyRemove: the removal in an `except`, not in `finally`)
FinallySkippedOnFault(clients, c, reason) ==
    IF reason = "fault" THEN clients ELSE clients \ {c}
FinallyRemove(clients, c, reason) == clients \ {c}
handle_client_finally(c, reason) ==
    /\ hpc[c] = "recv"
    /\ reason # "fault" => ~open[c]
    /\ connected_clients' = FinallyRemove(connected_clients, c, reason)
    /\ hpc' = [hpc EXCEPT ![c] = IF c \in connected_clients THEN "closed" ELSE "KeyError"]
    /\ open' = [open EXCEPT ![c] = FALSE]
    /\ out' = Ev("exit", c, << >>, reason, 0, "")
    /\ UNCHANGED <<tokens, bc, now, inbox, limit, service>>

\* ------------------------------------------------------ handle_message
\* send_message(websocket, message): a failed send is logged, not raised
send_message(c, type) ==
    IF open[c] THEN Ev("send", c, << >>, type, 0, "") ELSE Logged(c, "send failed")

\* what a handler does when its handle_message ends with `status`
AfterMessage(c, status, o) ==
    IF status \in Faults THEN Annotate(Logged(c, status), o.key, o.note)
    ELSE IF status = "dropped" THEN Logged(c, "no accessToken")
    ELSE o

\* One frame of connection c, up to the next suspension of its handler
\* (the caller says where the frame comes from: see inbox).  The handler
\* takes a frame only at `async for`, where it awaits handle_message of the
\* frame before.
\* Where the handler is after a frame that is not a token_update: both
\* except clauses of handle_message log and return, so it is back at its
\* receive loop.
\* (mutant of AfterFrame: json.JSONDecodeError is not caught and ends the loop)
AfterFrameUncaught(frame) == IF frame.kind = "malformed" THEN "closed" ELSE "recv"
AfterFrame(frame) == "recv"
\* The type of the message handle_message sends back for a frame of type
\* `type` that is not a token_update ("" where the branch sends nothing).
\* (mutant of Reply: the pong branch answers with a pong of its own)
ReplyEchoesPong(type) ==
    CASE type = "connection" -> "welcome"
      [] type \in {"heartbeat", "pong"} -> "pong"
      [] OTHER -> ""
Reply(type) ==
    CASE type = "connection" -> "welcome"
      [] type = "heartbeat" -> "pong"
      [] OTHER -> ""
\* (mutant of Receiving: handle_message started as a task, not awaited, so
\* that the loop takes the next frame while a broadcast is in flight)
ReceivingOrBroadcasting(c) == hpc[c] \in {"recv", "bcast"}
Receiving(c) == hpc[c] = "recv"
handle_message(c, frame) ==
    /\ Receiving(c)
    /\ IF frame.kind = "json" /\ frame.type = "token_update"
       THEN /\ MayBroadcast
            /\ \E o \in handle_token_update(frame.data, "websocket") :
                  /\ tokens' = o.tokens
                  /\ connected_clients' = o.clients
                  /\ bc' = [bc EXCEPT ![WsTask(c)] = o.frame]
                  /\ hpc' = [hpc EXCEPT ![c] = IF o.status = "suspended" THEN "bcast" ELSE "recv"]
                  /\ out' = AfterMessage(c, o.status, o.out)
       ELSE /\ out' = CASE frame.kind = "malformed" -> Logged(c, "JSONDecodeError")
                        [] Reply(frame.type) # "" -> send_message(c, Reply(frame.type))
                        [] frame.type = "token_error" -> Logged(c, "token_error")
                        [] frame.type = "pong" -> Nothing
                        [] OTHER -> Logged(c, "unknown type")
            /\ hpc' = [hpc EXCEPT ![c] = AfterFrame(frame)]
            /\ UNCHANGED <<tokens, connected_clients, bc>>
    /\ UNCHANGED <<open, now, limit, service>>

\* -------------------------------------------------- handle_http_token
\* 200, or 500 with message "Internal server error: <the fault>"
HttpDone(status, o) ==
    IF status \in Faults
    THEN Annotate(Ev("http", 0, << >>, status, 500, ""), o.key, o.note)
    ELSE Annotate(Ev("http", 0, << >>, "Token received successfully", 200, ""), o.key, o.note)

\* data['transport'] = 'http'
HttpData(data) == [data EXCEPT !.keys = @ \cup {"transport"}, !.transport = "http"]

\* POST /api/token up to its first suspension (one request at a time)
handle_http_token(body) ==
    /\ ~bc[HttpTask].active
    /\ MayBroadcast
    /\ IF body.kind = "malformed"
       THEN /\ out' = Ev("http", 0, << >>, "Invalid JSON format", 400, "")
            /\ UNCHANGED <<tokens, connected_clients, bc>>
       ELSE IF NoToken(body.data)
       THEN /\ out' = Ev("http", 0, << >>, "Missing accessToken field", 400, "")
            /\ UNCHANGED <<tokens, connected_clients, bc>>
       ELSE LET data == HttpData(body.data)
            IN  \E o \in handle_token_update(data, "http") :
                   /\ tokens' = o.tokens
                   /\ connected_clients' = o.clients
                   /\ bc' = [bc EXCEPT ![HttpTask] = o.frame]
                   /\ out' = IF o.status = "suspended" THEN o.out ELSE HttpDone(o.status, o.out)
    /\ UNCHANGED <<hpc, open, now, inbox, limit, service>>

\* -------------------------------------------------- handle_get_tokens
\* token_info.get('token', '')[:8] + '...' if token_info.get('token') else ''
Ellipsis == <<0, 0, 0>>
Prefix(str, n) == SubSeq(str, 1, IF Len(str) < n THEN Len(str) ELSE n)
TokenPreview(token) == IF token = << >> THEN << >> ELSE Prefix(token, PreviewLen) \o Ellipsis
\* one entry of token_list
TokenSummary(token_info) ==
    [user_name |-> token_info.user_name,
     user_email |-> token_info.user_email,
     last_updated |-> token_info.last_updated,
     status |-> token_info.status,
     transport |-> token_info.transport,
     token_preview |-> TokenPreview(token_info.token)]
\* the body of the response: token_list has one entry per record (indexed
\* here by the record's key, which the response does not carry)
GetTokensResponse(reg) ==
    [status |-> "success",
     count |-> Cardinality(DOMAIN reg),
     tokens |-> [k \in DOMAIN reg |-> TokenSummary(reg[k])]]
\* GET /api/tokens (no suspension)
handle_get_tokens ==
    /\ out' = Ev("GET /api/tokens", 0, << >>, GetTokensResponse(tokens).status,
                 GetTokensResponse(tokens).count, "")
    /\ UNCHANGED <<connected_clients, tokens, hpc, open, bc, now, inbox, limit, service>>

\* ------------------------------------------------ programmatic surface
\* request_token_refresh() up to its first suspension
request_token_refresh ==
    /\ ~bc[HostTask].active
    /\ MayBroadcast
    /\ \E o \in broadcast(RequestToken, connected_clients) :
          /\ connected_clients' = o.clients
          /\ bc' = [bc EXCEPT ![HostTask] = o.frame]
          /\ out' = IF o.status = "suspended" THEN o.out
                    ELSE Ev("request_token_refresh", 0, << >>, "None", 0, "")
    /\ UNCHANGED <<tokens, hpc, open, now, inbox, limit, service>>

\* A host call directly after the same call on the same key is noted with
\* what that call returned.
Repeats(call, key) ==
    IF out.kind = call /\ out.key = key
    THEN (IF out.type = "True" THEN "after True" ELSE "after False")
    ELSE ""

\* remove_token(token) -> bool
\* (mutant of RemoveToken: True whether or not the key was there)
RemoveAlwaysTrue(reg, token) == [tokens |-> Del(reg, token), value |-> "True"]
RemoveToken(reg, token) ==
    IF token \in DOMAIN reg
    THEN [tokens |-> Del(reg, token), value |-> "True"]
    ELSE [tokens |-> reg, value |-> "False"]
remove_token(token) ==
    /\ tokens' = RemoveToken(tokens, token).tokens
    /\ out' = Ev("remove_token", 0, token, RemoveToken(tokens, token).value, 0,
                 Repeats("remove_token", token))
    /\ UNCHANGED <<connected_clients, hpc, open, bc, now, inbox, limit, service>>

\* clear_tokens(): counts, clears, logs the count, and returns nothing
\* (mutant of ClearTokens: one record survives)
ClearKeepsOne(reg) ==
    IF reg = EmptyDict THEN [tokens |-> EmptyDict, count |-> 0, value |-> "None"]
    ELSE LET k == CHOOSE k \in DOMAIN reg : TRUE
         IN  [tokens |-> [j \in {k} |-> reg[j]], count |-> Cardinality(DOMAIN reg), value |-> "None"]
ClearTokens(reg) ==
    [tokens |-> EmptyDict, count |-> Cardinality(DOMAIN reg), value |-> "None"]
clear_tokens ==
    /\ tokens' = ClearTokens(tokens).tokens
    /\ out' = Ev("clear_tokens", 0, << >>, ClearTokens(tokens).value, ClearTokens(tokens).count, "")
    /\ UNCHANGED <<connected_clients, hpc, open, bc, now, inbox, limit, service>>

\* ------------------------------------------------- broadcast, resumed
\* The send a broadcast() was suspended in completes and the coroutine runs
\* on: the next turn of the loop, or the end of the call and of its caller.
BroadcastDone(task, status) ==
    CASE task[1] = "ws" ->
           IF status \in Faults THEN Logged(task[2], status) ELSE Nothing
      [] task[1] = "http" -> HttpDone(status, Nothing)
      [] OTHER ->
           IF status \in Faults THEN Raised(status)
           ELSE Ev("request_token_refresh", 0, << >>, "None", 0, "")
broadcast_resume(task) ==
    /\ bc[task].active
    /\ \E o \in LoopTurn(bc[task], connected_clients) :
          /\ connected_clients' = o.clients
          /\ bc' = [bc EXCEPT ![task] = o.frame]
          /\ out' = IF o.status = "suspended" THEN o.out ELSE BroadcastDone(task, o.status)
          /\ hpc' = IF task[1] = "ws" /\ o.status # "suspended"
                    THEN [hpc EXCEPT ![task[2]] = "recv"] ELSE hpc
    /\ UNCHANGED <<tokens, open, now, inbox, limit, service>>

\* ------------------------------------------------- the listeners
\* A listening socket on localhost:port is held by the bidirectional
\* listener ("ws"), by the HTTP site ("http") or by another process
\* ("other").  Neither library sets reuse_port, so a bind raises OSError
\* (address already in use) while anyone holds the port.
Holders == {"ws", "http", "other"}
CanBind == port = {}

\* another process takes the free port, or gives it back
OtherProcess ==
    /\ host = Idle
    /\ \/ CanBind /\ port' = {"other"}
       \/ "other" \in port /\ port' = port \ {"other"}
    /\ UNCHANGED <<connected_clients, tokens, hpc, open, bc, now, out, inbox, limit,
                   WEBSOCKETS_AVAILABLE, AIOHTTP_AVAILABLE, global_hybrid_server,
                   websocket_server, runner, site, is_running, instances, host>>

\* get_hybrid_server(): the instance it returns, constructing one (a new
\* Registry, a new Connection Set, no listener) when the reference is None.
\* What is still running of an instance nobody refers to is not followed.
Fresh == global_hybrid_server = 0
GetInstance == IF Fresh THEN instances + 1 ELSE global_hybrid_server
ConstructIfNone ==
    /\ Fresh => instances < MaxInstances
    /\ global_hybrid_server' = GetInstance
    /\ instances' = IF Fresh THEN instances + 1 ELSE instances
    /\ tokens' = IF Fresh THEN EmptyDict ELSE tokens
    /\ connected_clients' = IF Fresh THEN {} ELSE connected_clients
    /\ bc' = IF Fresh THEN [t \in Tasks |-> NoFrame] ELSE bc
get_hybrid_server ==
    /\ host = Idle
    /\ ConstructIfNone
    /\ websocket_server' = IF Fresh THEN "None" ELSE websocket_server
    /\ runner' = IF Fresh THEN "None" ELSE runner
    /\ site' = IF Fresh THEN "None" ELSE site
    /\ is_running' = IF Fresh THEN FALSE ELSE is_running
    /\ out' = Ev("get_hybrid_server", 0, << >>, IF Fresh THEN "constructed" ELSE "held", GetInstance, "")
    /\ UNCHANGED <<hpc, open, now, inbox, limit, WEBSOCKETS_AVAILABLE, AIOHTTP_AVAILABLE, port, host>>

\* what a host call returns (or raises)
Returned(call, value) == Ev(call, 0, << >>, value, 0, "")

\* start_hybrid_server(): get_hybrid_server(), then start() up to its first
\* suspension, in websockets.serve; without the websockets library start()
\* returns False at once.
start_hybrid_server ==
    /\ host = Idle
    /\ ConstructIfNone
    /\ websocket_server' = IF Fresh THEN "None" ELSE websocket_server
    /\ runner' = IF Fresh THEN "None" ELSE runner
    /\ site' = IF Fresh THEN "None" ELSE site
    /\ is_running' = IF Fresh THEN FALSE ELSE is_running
    /\ host' = IF WEBSOCKETS_AVAILABLE THEN "start:serve" ELSE Idle
    /\ out' = IF WEBSOCKETS_AVAILABLE THEN Nothing ELSE Returned("start_hybrid_server", "False")
    /\ UNCHANGED <<hpc, open, now, inbox, limit, WEBSOCKETS_AVAILABLE, AIOHTTP_AVAILABLE, port>>

\* websockets.serve() ends: the port is bound and self.websocket_server set,
\* or OSError is caught and start() returns False.  With aiohttp,
\* start_http_server() then runs up to `await self.runner.setup()`.
start_serve ==
    /\ host = "start:serve"
    /\ IF ~CanBind
       THEN /\ host' = Idle
            /\ out' = Returned("start_hybrid_server", "False")
            /\ UNCHANGED <<websocket_server, runner, is_running, port>>
       ELSE /\ websocket_server' = "serving"
            /\ port' = port \cup {"ws"}
            /\ IF AIOHTTP_AVAILABLE
               THEN /\ runner' = "made"
                    /\ host' = "start:setup"
                    /\ out' = Nothing
                    /\ UNCHANGED is_running
               ELSE /\ is_running' = TRUE
                    /\ host' = Idle
                    /\ out' = Returned("start_hybrid_server", "True")
                    /\ UNCHANGED runner
    /\ UNCHANGED <<connected_clients, tokens, hpc, open, bc, now, inbox, limit,
                   WEBSOCKETS_AVAILABLE, AIOHTTP_AVAILABLE, global_hybrid_server,
                   site, instances>>

\* runner.setup() ends; self.site = web.TCPSite(...); site.start() registers
\* the site with the runner and is suspended in the bind.
start_setup ==
    /\ host = "start:setup"
    /\ runner' = "setup"
    /\ site' = "registered"
    /\ host' = "start:site"
    /\ out' = Nothing
    /\ UNCHANGED <<connected_clients, tokens, hpc, open, bc, now, inbox, limit,
                   WEBSOCKETS_AVAILABLE, AIOHTTP_AVAILABLE, global_hybrid_server,
                   websocket_server, is_running, instances, port>>

\* site.start() ends: the port is bound, or OSError is caught and logged by
\* start_http_server(); start() sets is_running and returns True either way.
start_site ==
    /\ host = "start:site"
    /\ port' = IF CanBind THEN port \cup {"http"} ELSE port
    /\ is_running' = TRUE
    /\ host' = Idle
    /\ out' = Returned("start_hybrid_server", "True")
    /\ UNCHANGED <<connected_clients, tokens, hpc, open, bc, now, inbox, limit,
                   WEBSOCKETS_AVAILABLE, AIOHTTP_AVAILABLE, global_hybrid_server,
                   websocket_server, runner, site, instances>>

\* A start() call is suspended in websockets.serve() on an instance that
\* has no listener and no runner yet: a stop() of that instance awaits
\* nothing, so a stop_hybrid_server() called now (by another task of the
\* host) runs to its end before the start resumes.  A stop called at
\* another point of a start would itself be suspended; those interleavings
\* are not followed.
StartInServe == host = "start:serve" /\ websocket_server = "None" /\ runner = "None"

\* stop(), after the bidirectional listener: with aiohttp and a runner it is
\* suspended in runner.cleanup(); otherwise it clears is_running and
\* returns, and stop_hybrid_server() clears the reference.
StopHttp ==
    IF AIOHTTP_AVAILABLE /\ runner # "None"
    THEN /\ host' = "stop:cleanup"
         /\ out' = Nothing
         /\ UNCHANGED <<is_running, global_hybrid_server>>
    ELSE /\ is_running' = FALSE
         /\ global_hybrid_server' = 0
         /\ host' = IF StartInServe THEN host ELSE Idle
         /\ out' = Returned("stop_hybrid_server", "None")

\* stop_hybrid_server(): nothing without an instance; else stop() up to its
\* first suspension.  websocket_server.close() stops the listener and closes
\* every open connection (going away); wait_closed() suspends until the
\* handlers have returned.
stop_hybrid_server ==
    /\ host = Idle \/ StartInServe
    /\ IF Fresh
       THEN /\ out' = Returned("stop_hybrid_server", "None")
            /\ UNCHANGED <<websocket_server, port, open, host, is_running, global_hybrid_server>>
       ELSE IF websocket_server # "None"
       THEN /\ websocket_server' = "closed"
            /\ port' = port \ {"ws"}
            /\ open' = [c \in Conns |-> FALSE]
            /\ host' = "stop:wait_closed"
            /\ out' = Nothing
            /\ UNCHANGED <<is_running, global_hybrid_server>>
       ELSE /\ StopHttp
            /\ UNCHANGED <<websocket_server, port, open>>
    /\ UNCHANGED <<connected_clients, tokens, hpc, bc, now, inbox, limit,
                   WEBSOCKETS_AVAILABLE, AIOHTTP_AVAILABLE, runner, site, instances>>

\* wait_closed() ends, once every connection handler has returned
stop_wait_closed ==
    /\ host = "stop:wait_closed"
    /\ \A c \in Conns : hpc[c] \notin {"recv", "bcast"}
    /\ StopHttp
    /\ UNCHANGED <<connected_clients, tokens, hpc, open, bc, now, inbox, limit,
                   WEBSOCKETS_AVAILABLE, AIOHTTP_AVAILABLE, websocket_server,
                   runner, site, instances, port>>

\* runner.cleanup() ends: it has stopped and unregistered the runner's sites
\* and closed the HTTP socket.  `await self.site.stop()` then finds the site
\* not registered and raises RuntimeError out of stop() and of
\* stop_hybrid_server(): neither is_running nor the reference is cleared.
stop_cleanup ==
    /\ host = "stop:cleanup"
    /\ runner' = "cleaned"
    /\ port' = port \ {"http"}
    /\ host' = Idle
    /\ IF site # "None"
       THEN /\ site' = "unregistered"
            /\ out' = Raised("RuntimeError")
            /\ UNCHANGED <<is_running, global_hybrid_server>>
       ELSE /\ is_running' = FALSE
            /\ global_hybrid_server' = 0
            /\ out' = Returned("stop_hybrid_server", "None")
            /\ UNCHANGED site
    /\ UNCHANGED <<connected_clients, tokens, hpc, open, bc, now, inbox, limit,
                   WEBSOCKETS_AVAILABLE, AIOHTTP_AVAILABLE, websocket_server, instances>>

\* the queries of the module
is_hybrid_server_running == ~Fresh /\ is_running
get_auto_tokens == IF Fresh THEN {} ELSE get_tokens
get_auto_token_info == IF Fresh THEN {} ELSE get_all_token_info

\* ---------------------------------------------------------------- Next
\* The program with clients `conns` sending the frames `frames`, and HTTP
\* clients posting the bodies `bodies`.
NextFor(conns, frames, bodies) ==
    \/ Tick
    \/ \E c \in conns : PeerCloses(c)
    \/ \E c \in conns : handle_client(c)
    \/ \E c \in conns, reason \in ExitReasons : handle_client_finally(c, reason)
    \/ \E c \in conns, frame \in frames : handle_message(c, frame) /\ UNCHANGED inbox
    \/ \E body \in bodies : handle_http_token(body)
    \/ handle_get_tokens
    \/ request_token_refresh
    \/ \E token \in Tokens : remove_token(token)
    \/ clear_tokens
    \/ \E task \in Tasks : broadcast_resume(task)

\* Spec: every connection; the frames are token reports, one well-formed
\* report per token and the ill-formed ones.
Next == NextFor(Conns, ReportFrames(FewReports), ReportBodies(FewReports))
Spec == Init /\ [][Next]_vars

\* SpecRegistry: one bidirectional client and the HTTP clients, reporting
\* every shape of well-formed report.
FirstConn == CHOOSE c \in Conns : \A d \in Conns : c <= d
NextRegistry == NextFor({FirstConn}, ReportFrames(GoodReports), ReportBodies(GoodReports))
SpecRegistry == Init /\ [][NextRegistry]_vars

\* SpecFrames: one bidirectional client sending every kind of frame, and
\* HTTP clients posting every kind of body, about the first token.
NextFrames == NextFor({FirstConn}, Frames(FrameReports), Bodies(FrameReports))
SpecFrames == Init /\ [][NextFrames]_vars

\* SpecOrder: frames arrive on two connections while their handlers are busy and
\* wait in the connection's queue; `async for message in websocket` yields
\* the oldest, and ends (graceful or abrupt close) only when none is left.
OrderFrames ==
    {TokenUpdateFrame(FirstReport)}
    \cup [kind : {"json"}, type : {"heartbeat"}, data : {Payload({}, << >>, UserNone, "")}]
\* the first connection and the one accepted after it
FirstConns == {c \in Conns : c <= FirstConn + 1}
Arrive(c, frame) ==
    /\ hpc[c] \in {"recv", "bcast"}
    /\ open[c]
    /\ Len(inbox[c]) < MaxInbox
    /\ inbox' = [inbox EXCEPT ![c] = Append(@, frame)]
    /\ UNCHANGED <<connected_clients, tokens, hpc, open, bc, now, out, limit, service>>
Receive(c) ==
    /\ inbox[c] # << >>
    /\ handle_message(c, Head(inbox[c]))
    /\ inbox' = [inbox EXCEPT ![c] = Tail(@)]
NextOrder ==
    \/ \E c \in FirstConns, frame \in OrderFrames : Arrive(c, frame)
    \/ \E c \in FirstConns : Receive(c)
    \/ \E c \in FirstConns : PeerCloses(c)
    \/ \E c \in FirstConns : handle_client(c)
    \/ \E c \in FirstConns, reason \in ExitReasons :
          (reason # "fault" => inbox[c] = << >>) /\ handle_client_finally(c, reason)
    \/ \E task \in Tasks : broadcast_resume(task)
SpecOrder == Init /\ [][NextOrder]_vars

\* SpecRace: the first connection and the HTTP clients report the first
\* token, each with its own report, and one report more than in Spec may be
\* in its broadcast at a time, so that two updates of the token overlap.
SecondReport == Payload({"accessToken", "user"}, FirstToken, UserNameOnly, "")
InitRace ==
    /\ connected_clients = {}
    /\ tokens = EmptyDict
    /\ hpc = [c \in Conns |-> "new"]
    /\ open = [c \in Conns |-> FALSE]
    /\ bc = [t \in Tasks |-> NoFrame]
    /\ now = 0
    /\ out = Nothing
    /\ inbox = [c \in Conns |-> << >>]
    /\ limit = MaxPasses + 1
    /\ Constructed
NextRace == NextFor({FirstConn}, {TokenUpdateFrame(FirstReport)}, {JsonBody(SecondReport)})
SpecRace == InitRace /\ [][NextRace]_vars

\* SpecLifecycle: a process in which the host starts and stops the service
\* through the module's functions, one call at a time; connections are
\* accepted while the bidirectional listener holds the port, and report the
\* first token.  (No request reaches the HTTP handlers: the site never holds
\* the port.)
InitProcess ==
    /\ connected_clients = {}
    /\ tokens = EmptyDict
    /\ hpc = [c \in Conns |-> "new"]
    /\ open = [c \in Conns |-> FALSE]
    /\ bc = [t \in Tasks |-> NoFrame]
    /\ now = 0
    /\ out = Nothing
    /\ inbox = [c \in Conns |-> << >>]
    /\ limit = MaxPasses
    /\ WEBSOCKETS_AVAILABLE \in BOOLEAN
    /\ AIOHTTP_AVAILABLE \in BOOLEAN
    /\ global_hybrid_server = 0
    /\ instances = 0
    /\ websocket_server = "None"
    /\ runner = "None"
    /\ site = "None"
    /\ is_running = FALSE
    /\ port = {}
    /\ host = Idle
\* The listener of the held instance accepts connections.  (The listener of
\* an instance the accessor no longer refers to stays bound, but its
\* connections, with a Registry and a Connection Set of their own, are not
\* followed.)
Accepting == ~Fresh /\ websocket_server = "serving" /\ "ws" \in port
NextLifecycle ==
    \/ OtherProcess
    \/ get_hybrid_server
    \/ start_hybrid_server
    \/ start_serve
    \/ start_setup
    \/ start_site
    \/ stop_hybrid_server
    \/ stop_wait_closed
    \/ stop_cleanup
    \/ \E c \in Conns : PeerCloses(c)
    \/ \E c \in Conns : Accepting /\ handle_client(c)
    \/ \E c \in Conns, reason \in ExitReasons : handle_client_finally(c, reason)
    \/ \E c \in Conns : handle_message(c, TokenUpdateFrame(FirstReport)) /\ UNCHANGED inbox
    \/ ~Fresh /\ request_token_refresh
    \/ ~Fresh /\ remove_token(FirstToken)
    \/ ~Fresh /\ clear_tokens
    \/ \E task \in Tasks : broadcast_resume(task)
SpecLifecycle == InitProcess /\ [][NextLifecycle]_vars

\* SpecDispatch: two bidirectional clients sending every kind of frame, one
\* report among them, and the HTTP clients posting that report.
DispatchFrames == OtherFrames \cup {TokenUpdateFrame(FirstReport)}
NextDispatch == NextFor(FirstConns, DispatchFrames, {JsonBody(FirstReport)})
SpecDispatch == Init /\ [][NextDispatch]_vars

TypeOK ==
    /\ connected_clients \subseteq Conns
    /\ DOMAIN tokens \subseteq Tokens
    /\ \A k \in DOMAIN tokens : tokens[k].token = k /\ tokens[k].last_updated \in Times
    /\ hpc \in [Conns -> {"new", "recv", "bcast", "closed", "KeyError"}]
    /\ open \in [Conns -> BOOLEAN]
    /\ \A c \in Conns : (hpc[c] = "bcast") = bc[WsTask(c)].active
    /\ now \in Times
    /\ port \subseteq Holders /\ Cardinality(port) <= 1
    /\ global_hybrid_server \in {0, instances}
    /\ instances \in 0..MaxInstances
    /\ websocket_server \in {"None", "serving", "closed"}
    /\ runner \in {"None", "made", "setup", "cleaned"}
    /\ site \in {"None", "registered", "unregistered"}
    /\ host \in {Idle, "start:serve", "start:setup", "start:site", "stop:wait_closed", "stop:cleanup"}

\* ============================================================== claims
Occurrences(seq, x) == Cardinality({i \in DOMAIN seq : seq[i] = x})
BroadcastEnds(t) == bc[t].active /\ ~bc'[t].active
\* dict.get as the claims read it off a report
Reported(obj, key, default) == IF key \in obj.keys THEN obj[key] ELSE default
ReportedUser(data) == IF "user" \in data.keys THEN data.user ELSE UserNone

\* C1: whenever a broadcast in which a send failed ends, every other member
\* of the set it was called on (whose connection is open) has been sent the
\* message, and no member whose send failed is in the set any more.
C1_BroadcastDeliversToOthers ==
    [][\A t \in Tasks :
          (BroadcastEnds(t) /\ bc[t].disconnected # << >>) =>
             /\ \A m \in bc[t].snap \ Range(bc[t].disconnected) :
                   open'[m] => m \in Range(bc[t].delivered)
             /\ Range(bc[t].disconnected) \cap connected_clients' = {}]_vars

\* C2: no removal of a connection from the set ever raises: neither
\* handle_client's finally nor broadcast's pruning ends in KeyError.
C2_SecondRemovalIsNoOp ==
    /\ \A c \in Conns : hpc[c] # "KeyError"
    /\ out.type # "KeyError"

\* C3: every broadcast ends by returning, after a pass that visited every
\* member the set had when it began, and only then removes the members
\* whose send failed; it never ends in a fault.
C3_PassCompletesWithoutFault ==
    [][\A t \in Tasks :
          BroadcastEnds(t) =>
             /\ out'.type \notin Faults
             /\ Visited(bc[t]) = bc[t].snap
             /\ connected_clients' = connected_clients \ Range(bc[t].disconnected)]_vars

\* C4: a connection's handler goes new -> active (recv / bcast) -> ended,
\* never back and never skipping the active state; the accept step puts the
\* connection in the set; and no connection whose handler has ended (by a
\* graceful close, an abrupt close or a fault) is in the set.
Rank(pc) == IF pc = "new" THEN 0 ELSE IF pc \in {"recv", "bcast"} THEN 1 ELSE 2
C4_LifecycleStep(c) ==
    /\ Rank(hpc'[c]) \in {Rank(hpc[c]), Rank(hpc[c]) + 1}
    /\ hpc[c] = "new" => c \notin connected_clients
    /\ (hpc[c] = "new" /\ hpc'[c] # "new") => c \in connected_clients'
C4_ConnectionLifecycle ==
    /\ [](\A c \in Conns : Rank(hpc[c]) = 2 => c \notin connected_clients)
    /\ [][\A c \in Conns : C4_LifecycleStep(c)]_vars
C4_Witness ==
    \E c \in Conns :
       /\ hpc[c] = "closed"
       /\ out = Ev("exit", c, << >>, "fault", 0, "")
       /\ connected_clients # {}

\* C5: a token_update with a non-empty accessToken from a connected client
\* stores the record tagged "websocket" and starts a broadcast of
\* token_received whose total_tokens is the Registry's size right after the
\* store; when that broadcast ends every member of the set it was called on
\* whose connection is open has been sent the event exactly once.
C5_AllMembersReceiveOnce ==
    [][\A c \in Conns :
          /\ \A data \in FullReports :
                handle_message(c, TokenUpdateFrame(data)) =>
                   /\ data.accessToken \in DOMAIN tokens'
                   /\ tokens'[data.accessToken].transport = "websocket"
                   /\ bc'[WsTask(c)].active =>
                         bc'[WsTask(c)].msg.total_tokens = Cardinality(DOMAIN tokens')
          /\ BroadcastEnds(WsTask(c)) =>
                \A m \in bc[WsTask(c)].snap :
                   open'[m] => Occurrences(bc[WsTask(c)].delivered, m) = 1]_vars

\* C6: a token_update without a usable accessToken changes neither the
\* Registry nor the set and starts no broadcast; over the bidirectional
\* transport nothing is sent and the connection stays open and active, over
\* HTTP the answer is 400.
C6_MissingTokenDropped ==
    [][\A data \in BadReports :
          /\ \A c \in Conns :
                handle_message(c, TokenUpdateFrame(data)) =>
                   /\ tokens' = tokens /\ bc' = bc
                   /\ connected_clients' = connected_clients
                   /\ out'.kind # "send"
                   /\ open' = open /\ hpc' = hpc
          /\ handle_http_token(JsonBody(data)) =>
                /\ tokens' = tokens /\ bc' = bc
                /\ connected_clients' = connected_clients
                /\ out'.kind = "http" /\ out'.n = 400]_vars
C6_Witness ==
    /\ DOMAIN tokens # {}
    /\ \E c \in connected_clients :
          open[c] /\ hpc[c] = "recv" /\ out = Logged(c, "no accessToken")

\* C7: right after a well-formed report with a non-empty accessToken is
\* processed (over either transport), get_token_info of its token returns a
\* record whose token, user name, user email and status are the report's,
\* with "unknown", "unknown" and "active" where the report omits them.
Upserts(data) ==
    \/ \E c \in Conns : handle_message(c, TokenUpdateFrame(data))
    \/ handle_http_token(JsonBody(data))
C7_UpsertThenGet ==
    [][\A data \in GoodReports :
          Upserts(data) =>
             /\ data.accessToken \in DOMAIN tokens'
             /\ get_token_info(data.accessToken)'.token = data.accessToken
             /\ get_token_info(data.accessToken)'.user_name
                   = Reported(ReportedUser(data), "name", "unknown")
             /\ get_token_info(data.accessToken)'.user_email
                   = Reported(ReportedUser(data), "email", "unknown")
             /\ get_token_info(data.accessToken)'.status
                   = Reported(data, "status", "active")]_vars
C7_Witness ==
    \E k \in DOMAIN tokens :
       /\ out.key = k /\ out.note = "created"
       /\ tokens[k].user_name = "bob"
       /\ tokens[k].user_email = "unknown"
       /\ tokens[k].status = "active"

\* C8: a report of a token that is already stored leaves the Registry's
\* keys as they are (a first report adds exactly its key), leaves every
\* other record untouched, and makes the record under the key that of this
\* report: its fields, its transport, and last_updated = the time of this
\* write.
C8_ReportOverwrites(data, transport) ==
    LET k == data.accessToken IN
    /\ DOMAIN tokens' = DOMAIN tokens \cup {k}
    /\ k \in DOMAIN tokens => Cardinality(DOMAIN tokens') = Cardinality(DOMAIN tokens)
    /\ k \notin DOMAIN tokens => Cardinality(DOMAIN tokens') = Cardinality(DOMAIN tokens) + 1
    /\ \A j \in DOMAIN tokens \ {k} : tokens'[j] = tokens[j]
    /\ tokens'[k].last_updated = now
    /\ tokens'[k].transport = transport
    /\ tokens'[k].user_name = Reported(ReportedUser(data), "name", "unknown")
    /\ tokens'[k].user_email = Reported(ReportedUser(data), "email", "unknown")
    /\ tokens'[k].status = Reported(data, "status", "active")
    /\ tokens'[k].expires = Reported(data, "expires", "None")
    /\ tokens'[k].raw_data.keys \ {"transport"} = data.keys
C8_ReupsertKeepsOneRecord ==
    [][\A data \in GoodReports :
          /\ (\E c \in Conns : handle_message(c, TokenUpdateFrame(data)))
                => C8_ReportOverwrites(data, "websocket")
          /\ handle_http_token(JsonBody(data))
                => C8_ReportOverwrites(data, "http")]_vars
C8_Witness ==
    \E k \in DOMAIN tokens :
       /\ out.key = k /\ out.note = "updated"
       /\ now > 0 /\ tokens[k].last_updated = now
       /\ tokens[k].transport = "http"
       /\ Cardinality(DOMAIN tokens) = 1

\* C9: remove_token(token) returns True exactly when the token was stored,
\* removes that record and no other, and a call directly after one that
\* returned True for the same token returns False.
C9_DeleteReturnsPresence ==
    [][\A k \in Tokens :
          remove_token(k) =>
             /\ out'.type = (IF k \in DOMAIN tokens THEN "True" ELSE "False")
             /\ DOMAIN tokens' = DOMAIN tokens \ {k}
             /\ \A j \in DOMAIN tokens' : tokens'[j] = tokens[j]
             /\ (out.kind = "remove_token" /\ out.key = k /\ out.type = "True")
                   => out'.type = "False"]_vars
C9_Witness ==
    /\ out.kind = "remove_token"
    /\ out.type = "False"
    /\ out.note = "after True"
    /\ DOMAIN tokens # {}

\* C10 as claimed: clear_tokens returns the number of records it removed
\* and leaves the Registry empty.
C10_ClearReturnsCount ==
    [][clear_tokens =>
          /\ out'.type = "int"
          /\ out'.n = Cardinality(DOMAIN tokens)
          /\ DOMAIN tokens' = {}]_vars
\* C10 as amended: clear_tokens on N records leaves the Registry empty,
\* logs N, and returns nothing (None).
C10_ClearLogsCount ==
    [][clear_tokens =>
          /\ out'.type = "None"
          /\ out'.n = Cardinality(DOMAIN tokens)
          /\ DOMAIN tokens' = {}]_vars
C10_Witness ==
    /\ out.kind = "clear_tokens"
    /\ out.n > 1
    /\ DOMAIN tokens = {}

\* C11: the response of GET /api/tokens gives, for every stored token, a
\* preview that is the token's first 8 characters followed by the ellipsis,
\* and from which the token cannot be read in full (the preview without its
\* ellipsis is not the token).
C11_PreviewHidesToken ==
    [][handle_get_tokens =>
          \A k \in DOMAIN tokens :
             LET preview == GetTokensResponse(tokens).tokens[k].token_preview IN
             /\ preview = SubSeq(k, 1, PreviewLen) \o Ellipsis
             /\ SubSeq(preview, 1, Len(preview) - Len(Ellipsis)) # k]_vars

\* the step in which a start_hybrid_server() / stop_hybrid_server() call
\* of the host ends (by returning or by raising)
StartEnds == (start_hybrid_server \/ start_serve \/ start_site) /\ host' = Idle
StopEnds ==
    \/ (stop_hybrid_server \/ stop_wait_closed \/ stop_cleanup) /\ host' = Idle
    \/ stop_hybrid_server /\ StartInServe

\* C12: when start ends, a listener that could not start has not kept the
\* other from running: with the websockets library there and the port not
\* held by another process, the bidirectional listener holds the port and
\* start (of a service not yet running) returned True even though the HTTP
\* listener does not run; and with
\* the aiohttp library there and the port not held by another process, the
\* HTTP listener runs even though the bidirectional listener does not.
C12_ListenerFailuresIndependent ==
    [][StartEnds =>
          /\ ("http" \notin port' /\ WEBSOCKETS_AVAILABLE /\ "other" \notin port')
                => ("ws" \in port' /\ is_running' /\ (~is_running => out'.type = "True"))
          /\ ("ws" \notin port' /\ AIOHTTP_AVAILABLE /\ "other" \notin port')
                => "http" \in port']_vars

\* C13: when start returns True with both libraries there, the
\* bidirectional listener and the HTTP listener both hold the one port.
C13_BothListenersOnOnePort ==
    [][(StartEnds /\ out'.type = "True" /\ WEBSOCKETS_AVAILABLE /\ AIOHTTP_AVAILABLE)
          => (is_running' /\ {"ws", "http"} \subseteq port')]_vars

\* C14: a stop of a running service ends by returning, and then the running
\* flag is false, neither listener holds the port, the runner is released,
\* every connection is closed and the Connection Set is empty.
C14_StopReleasesEverything ==
    [][(StopEnds /\ is_hybrid_server_running) =>
          /\ out' = Returned("stop_hybrid_server", "None")
          /\ ~is_running'
          /\ port' \cap {"ws", "http"} = {}
          /\ runner' \in {"None", "cleaned"}
          /\ \A c \in Conns : ~open'[c]
          /\ connected_clients' = {}]_vars

\* C15: a token the host can retrieve stops being retrievable only in a
\* step that is remove_token of that token or clear_tokens.
C15_OnlyDeleteOrClearRemoves ==
    [][\A k \in get_auto_tokens :
          k \notin get_auto_tokens' => (remove_token(k) \/ clear_tokens)]_vars

\* C16: the accessor returns the held instance, constructing one only when
\* none is held, and a constructed one is new; the held reference changes
\* only when the accessor constructs or a stop ends; and when a stop of a
\* held instance ends the reference is cleared.
C16_SingleInstance ==
    [][/\ get_hybrid_server =>
             /\ out'.n = global_hybrid_server'
             /\ ~Fresh => global_hybrid_server' = global_hybrid_server
             /\ Fresh => global_hybrid_server' > instances
       /\ global_hybrid_server' # global_hybrid_server =>
             \/ Fresh /\ (get_hybrid_server \/ start_hybrid_server)
             \/ StopEnds /\ global_hybrid_server' = 0
       /\ (StopEnds /\ ~Fresh) => global_hybrid_server' = 0]_vars

\* C17: POST /api/token with a well-formed report of a non-empty
\* accessToken stores the record tagged "http" and starts, over every
\* connection of the set, the broadcast of the token_received event a
\* token_update would start (but for the transport it names), and the call
\* ends with 200 "Token received successfully"; GET /api/tokens reports as
\* count the number of tokens stored; POST /api/token without a usable
\* accessToken answers 400 "Missing accessToken field".
C17_Ok == Ev("http", 0, << >>, "Token received successfully", 200, "")
C17_PostStoresAndBroadcasts ==
    [][/\ \A data \in FullReports :
             handle_http_token(JsonBody(data)) =>
                /\ data.accessToken \in DOMAIN tokens'
                /\ tokens'[data.accessToken].transport = "http"
                /\ IF connected_clients = {}
                   THEN [out' EXCEPT !.key = << >>, !.note = ""] = C17_Ok
                   ELSE /\ bc'[HttpTask].active
                        /\ bc'[HttpTask].snap = connected_clients
                        /\ bc'[HttpTask].msg =
                              [TokenReceived(tokens', data, "websocket") EXCEPT !.transport = "http"]
       /\ BroadcastEnds(HttpTask) => out' = C17_Ok
       /\ handle_get_tokens => out'.n = Cardinality(DOMAIN tokens)
       /\ \A data \in BadReports :
             handle_http_token(JsonBody(data)) =>
                out' = Ev("http", 0, << >>, "Missing accessToken field", 400, "")]_vars

\* C18: the handler of a connection takes up a frame only when it is at its
\* receive loop with no broadcast of its own in flight (the handling of the
\* frame before, broadcast included, is complete), and the frame it takes up
\* is the oldest that has arrived and is not handled; frames of other
\* connections are handled meanwhile.
C18_TakesUp(c) == Len(inbox'[c]) < Len(inbox[c])
C18_FramesInArrivalOrder ==
    [][\A c \in Conns :
          C18_TakesUp(c) =>
             /\ hpc[c] = "recv"
             /\ ~bc[WsTask(c)].active
             /\ inbox'[c] = Tail(inbox[c])
             /\ handle_message(c, Head(inbox[c]))]_vars
C18_Witness ==
    \E c \in Conns, d \in Conns :
       /\ c # d
       /\ hpc[c] = "bcast"
       /\ Len(inbox[c]) = MaxInbox
       /\ out.kind = "send" /\ out.to = d /\ out.type = "pong"

\* C19: when a report of a token over HTTP and one over the bidirectional
\* transport overlap, the token has one record, and after every step it is
\* in full the record of the report whose store ran last: each store makes
\* the record that of its own report (every field and the transport tag),
\* and no other step of either update touches it.
C19_WsStore == \E c \in Conns : handle_message(c, TokenUpdateFrame(FirstReport))
C19_HttpStore == handle_http_token(JsonBody(SecondReport))
C19_RecordChanges ==
    \/ (FirstToken \in DOMAIN tokens) # (FirstToken \in DOMAIN tokens')
    \/ /\ FirstToken \in DOMAIN tokens /\ FirstToken \in DOMAIN tokens'
       /\ tokens'[FirstToken] # tokens[FirstToken]
C19_LaterWriteWins ==
    [][/\ C19_WsStore => tokens'[FirstToken] = TokenRecord(FirstReport, "websocket", now)
       /\ C19_HttpStore => tokens'[FirstToken] = TokenRecord(HttpData(SecondReport), "http", now)
       /\ C19_RecordChanges =>
             \/ C19_WsStore \/ C19_HttpStore
             \/ remove_token(FirstToken) \/ clear_tokens]_vars
C19_Witness ==
    /\ bc[HttpTask].active /\ bc[HttpTask].msg.type = "token_received"
    /\ bc[WsTask(FirstConn)].active
    /\ FirstToken \in DOMAIN tokens
    /\ tokens[FirstToken] = TokenRecord(FirstReport, "websocket", now)
    /\ out.note = "updated"

\* C20: a frame that cannot be parsed is logged and nothing else: the
\* Registry, the Connection Set, every handler's position, every
\* connection's state and every broadcast are as before, no frame is sent,
\* the connection's handler is at its receive loop, and the next frame it
\* takes up is handled as usual (a heartbeat is answered with pong).
C20_Malformed == [kind |-> "malformed", type |-> "", data |-> Payload({}, << >>, UserNone, "")]
C20_Heartbeat == [kind |-> "json", type |-> "heartbeat", data |-> Payload({}, << >>, UserNone, "")]
C20_MalformedFrameIgnored ==
    [][\A c \in Conns :
          /\ handle_message(c, C20_Malformed) =>
                /\ tokens' = tokens
                /\ connected_clients' = connected_clients
                /\ hpc' = hpc /\ hpc'[c] = "recv"
                /\ open' = open
                /\ bc' = bc
                /\ out' = Logged(c, "JSONDecodeError")
          /\ (out = Logged(c, "JSONDecodeError") /\ open[c] /\ handle_message(c, C20_Heartbeat))
                => out' = Ev("send", c, << >>, "pong", 0, "")]_vars
C20_Witness ==
    \E c \in connected_clients :
       /\ out = Logged(c, "JSONDecodeError")
       /\ open[c] /\ hpc[c] = "recv"
       /\ DOMAIN tokens # {}

\* C21: a frame whose type is not token_update changes neither the Registry
\* nor the Connection Set and starts no broadcast.  For connection the
\* handler makes one send of a welcome, and for heartbeat one send of a pong,
\* addressed to the connection the frame came from (on a connection whose
\* peer has gone the send fails and the failure is logged); for pong,
\* token_error and an unrecognized type nothing is sent and no send is
\* attempted.
C21_Frame(type) == [kind |-> "json", type |-> type, data |-> Payload({}, << >>, UserNone, "")]
C21_Answer(c, type) ==
    IF open[c] THEN Ev("send", c, << >>, type, 0, "") ELSE Logged(c, "send failed")
C21_OtherFramesOnlyReply ==
    [][\A c \in Conns : \A type \in {"connection", "token_error", "heartbeat", "pong", "other"} :
          handle_message(c, C21_Frame(type)) =>
             /\ tokens' = tokens
             /\ connected_clients' = connected_clients
             /\ bc' = bc
             /\ type = "connection" => out' = C21_Answer(c, "welcome")
             /\ type = "heartbeat" => out' = C21_Answer(c, "pong")
             /\ type \in {"token_error", "pong", "other"} =>
                   out'.kind # "send" /\ out'.type # "send failed"]_vars
C21_Witness ==
    \E c, d \in connected_clients :
       /\ c # d /\ open[c] /\ open[d]
       /\ out = Ev("send", c, << >>, "welcome", 0, "")
       /\ DOMAIN tokens # {}

\* C22: a POST /api/token that answers 400 or 500 has stored nothing.  A
\* call that answers at once with an error has left the Registry as it was;
\* and when the broadcast of a call ends in an error response, the record
\* the call stored (the posted token, tagged "http") is not in the Registry.
C22_Stored(reg, data) ==
    /\ data.accessToken \in DOMAIN reg
    /\ reg[data.accessToken].transport = "http"
C22_FailedPostStoresNothing ==
    [][/\ \A body \in Bodies(FrameReports) :
             (handle_http_token(body) /\ out'.kind = "http" /\ out'.n # 200)
                => tokens' = tokens
       /\ (BroadcastEnds(HttpTask) /\ out'.n # 200) => ~C22_Stored(tokens', FirstReport)]_vars

\* C23: whenever no start or stop call is in flight, the running-state
\* query answers true exactly when a listener of the service holds the port.
C23_ListenerBound == port \cap {"ws", "http"} # {}
C23_RunningIffListenerBound ==
    host = Idle => (is_hybrid_server_running <=> C23_ListenerBound)

====
